---- MODULE Spec2Model ----
(***************************************************************************)
(* Model of src/fetch_movie_data.py (class MovieDataFetcher): the item     *)
(* normalizer compress_item_data with its helpers, the list processor      *)
(* process_data_list and the homepage assembler generate_homepage_data.    *)
(*                                                                         *)
(* Python values are tagged records, so that a dict can hold values of     *)
(* different types and the code's tests (is None, == '', == [], truthiness)*)
(* are computed, not assumed:                                              *)
(*   None            [t |-> "none"]                                        *)
(*   int  n          [t |-> "int",   n |-> n]                              *)
(*   float x         [t |-> "float", c |-> 100 * x]   (hundredths)         *)
(*   bool b          [t |-> "bool",  b |-> b]                              *)
(*   str  s          [t |-> "str",   s |-> sequence of characters]         *)
(*   list l          [t |-> "list",  l |-> sequence of values]             *)
(*   dict d          [t |-> "dict",  d |-> function from keys to values]   *)
(***************************************************************************)
EXTENDS Integers, Sequences, FiniteSets, TLC

None == [t |-> "none"]
Int_(n) == [t |-> "int", n |-> n]
Float_(c) == [t |-> "float", c |-> c]
Bool_(b) == [t |-> "bool", b |-> b]
Str_(s) == [t |-> "str", s |-> s]
List_(l) == [t |-> "list", l |-> l]
Dict_(d) == [t |-> "dict", d |-> d]

EmptyDict == [k \in {} |-> None]
EmptyStr == Str_(<<>>)
EmptyList == List_(<<>>)

IsNone(v) == v.t = "none"
IsEmptyStr(v) == v.t = "str" /\ v.s = <<>>
IsEmptyList(v) == v.t = "list" /\ v.l = <<>>
\* Python's  v == 0  (an int or a float; 0 == 0.0 == False)
IsZero(v) ==
  \/ v.t = "int" /\ v.n = 0
  \/ v.t = "float" /\ v.c = 0
  \/ v.t = "bool" /\ ~v.b

\* Python truthiness:  if v / not v / a or b
Truthy(v) ==
  CASE v.t = "none" -> FALSE
    [] v.t = "int" -> v.n # 0
    [] v.t = "float" -> v.c # 0
    [] v.t = "bool" -> v.b
    [] v.t = "str" -> v.s # <<>>
    [] v.t = "list" -> v.l # <<>>
    [] v.t = "dict" -> DOMAIN v.d # {}

Or_(a, b) == IF Truthy(a) THEN a ELSE b

\* dict.get(k) and dict.get(k, default) on the function d
Get(d, k) == IF k \in DOMAIN d THEN d[k] ELSE None
GetD(d, k, default) == IF k \in DOMAIN d THEN d[k] ELSE default

\* dict.update
Update(d, e) == [k \in DOMAIN d \cup DOMAIN e |-> IF k \in DOMAIN e THEN e[k] ELSE d[k]]

\* {k: v for k, v in d.items() if k in ks}
Only(d, ks) == [k \in ks |-> d[k]]

\* s[:n] on a sequence
Prefix(s, n) == IF Len(s) <= n THEN s ELSE SubSeq(s, 1, n)

\* v[:n] on a str or a list value
Slice(v, n) ==
  IF v.t = "str" THEN Str_(Prefix(v.s, n)) ELSE List_(Prefix(v.l, n))

\* round(v, 1): an int is returned unchanged; a float (hundredths) is rounded to
\* tenths, half to even; None raises TypeError (RoundRaises).
RoundRaises(v) == v.t \notin {"int", "float"}
Round1(v) ==
  IF v.t = "int" THEN v
  ELSE LET q == v.c \div 10
           r == v.c % 10
           up == r > 5 \/ (r = 5 /\ q % 2 = 1)
       IN Float_(10 * (IF up THEN q + 1 ELSE q))

\* float(v) of an int or a float
ToFloat(v) == IF v.t = "int" THEN Float_(100 * v.n) ELSE v

Whitespace == {" ", "\t", "\n"}

\* str.strip()
RECURSIVE LStrip(_)
LStrip(s) ==
  IF s # <<>> /\ Head(s) \in Whitespace THEN LStrip(Tail(s)) ELSE s

RECURSIVE RStrip(_)
RStrip(s) ==
  IF s # <<>> /\ s[Len(s)] \in Whitespace THEN RStrip(SubSeq(s, 1, Len(s) - 1)) ELSE s

Strip(s) == RStrip(LStrip(s))

(***************************************************************************)
(* String literals of the code.                                            *)
(***************************************************************************)
movie == Str_(<<"m", "o", "v", "i", "e">>)
tv == Str_(<<"t", "v">>)
show == Str_(<<"s", "h", "o", "w">>)
other_media == Str_(<<"p", "e", "r", "s", "o", "n">>)

imdb == Str_(<<"i", "m", "d", "b">>)
metacritic == Str_(<<"m", "e", "t", "a", "c", "r", "i", "t", "i", "c">>)
tomatoes == Str_(<<"t", "o", "m", "a", "t", "o", "e", "s">>)
popcorn == Str_(<<"p", "o", "p", "c", "o", "r", "n">>)
tmdb == Str_(<<"t", "m", "d", "b">>)
letterboxd == Str_(<<"l", "e", "t", "t", "e", "r", "b", "o", "x", "d">>)
main_sources == {imdb, metacritic, tomatoes, popcorn, tmdb, letterboxd}

Director == Str_(<<"D", "i", "r", "e", "c", "t", "o", "r">>)
Producer == Str_(<<"P", "r", "o", "d", "u", "c", "e", "r">>)
ExecutiveProducer ==
  Str_(<<"E", "x", "e", "c", "u", "t", "i", "v", "e", " ", "P", "r", "o", "d", "u", "c", "e", "r">>)
Screenplay == Str_(<<"S", "c", "r", "e", "e", "n", "p", "l", "a", "y">>)
Writer == Str_(<<"W", "r", "i", "t", "e", "r">>)
important_jobs == {Director, Producer, ExecutiveProducer, Screenplay, Writer}

Trailer == Str_(<<"T", "r", "a", "i", "l", "e", "r">>)
Teaser == Str_(<<"T", "e", "a", "s", "e", "r">>)
Clip == Str_(<<"C", "l", "i", "p">>)
priority_types == <<Trailer, Teaser, Clip>>

OverviewMax == 2000
CastLimit == 8
VideosLimit == 3
CompaniesMax == 5
NetworksMax == 5

(***************************************************************************)
(* filter_valid_ratings and the rating consolidation of compress_item_data *)
(***************************************************************************)
\* a validity test that lets zero through
ValidRatingValue_zero_ok(value) == ~IsNone(value) /\ ~IsEmptyStr(value)

\* if value is not None and value != '' and value != 0
ValidRatingValue(value) == ~IsNone(value) /\ ~IsEmptyStr(value) /\ ~IsZero(value)

filter_valid_ratings(ratings) ==
  IF ~Truthy(ratings) THEN <<>>
  ELSE SelectSeq(ratings.l, LAMBDA rating : ValidRatingValue(Get(rating.d, "value")))

\* the loop over valid_ratings: main_ratings[source] = round(float(value), 1)
RECURSIVE MainRatingsLoop(_, _)
MainRatingsLoop(valid_ratings, main_ratings) ==
  IF valid_ratings = <<>> THEN main_ratings
  ELSE LET rating == Head(valid_ratings)
           source == Get(rating.d, "source")
           value == Get(rating.d, "value")
           next == IF source \in main_sources /\ ~IsNone(value)
                   THEN Update(main_ratings, source :> Round1(ToFloat(value)))
                   ELSE main_ratings
       IN MainRatingsLoop(Tail(valid_ratings), next)

\* a consolidation in which an invalid entry erases what its source had
RECURSIVE OverwriteLoop(_, _)
OverwriteLoop(ratings, main_ratings) ==
  IF ratings = <<>> THEN main_ratings
  ELSE LET rating == Head(ratings)
           source == Get(rating.d, "source")
           value == Get(rating.d, "value")
           next == IF source \notin main_sources THEN main_ratings
                   ELSE IF ValidRatingValue(value)
                        THEN Update(main_ratings, source :> Round1(ToFloat(value)))
                        ELSE [k \in DOMAIN main_ratings \ {source} |-> main_ratings[k]]
       IN OverwriteLoop(Tail(ratings), next)

main_ratings_of_overwritten(ratings) == OverwriteLoop(ratings.l, EmptyDict)

\* main_ratings of compress_item_data for the rating list  ratings
main_ratings_of(ratings) == MainRatingsLoop(filter_valid_ratings(ratings), EmptyDict)

(***************************************************************************)
(* compress_cast_data, compress_crew_data, compress_videos_data            *)
(***************************************************************************)
NotNoneNotEmptyStr(v) == ~IsNone(v) /\ ~IsEmptyStr(v)

compress_actor(actor) ==
  LET compressed_actor == [k \in {"id", "name", "character", "profile_path"} |->
                             Get(actor.d, k)]
  IN Only(compressed_actor,
          {k \in DOMAIN compressed_actor : NotNoneNotEmptyStr(compressed_actor[k])})

RECURSIVE CastLoop(_, _)
CastLoop(cast, compressed_cast) ==
  IF cast = <<>> THEN compressed_cast
  ELSE LET compressed_actor == compress_actor(Head(cast))
       IN CastLoop(Tail(cast),
                   IF DOMAIN compressed_actor # {}
                   THEN Append(compressed_cast, Dict_(compressed_actor))
                   ELSE compressed_cast)

compress_cast_data(cast, limit) ==
  IF ~Truthy(cast) THEN <<>> ELSE CastLoop(Prefix(cast.l, limit), <<>>)

compress_person(person) ==
  LET compressed_person ==
        [k \in {"id", "name", "job", "profile_path"} |->
           IF k = "job" THEN GetD(person.d, "job", EmptyStr) ELSE Get(person.d, k)]
  IN Only(compressed_person,
          {k \in DOMAIN compressed_person : NotNoneNotEmptyStr(compressed_person[k])})

RECURSIVE CrewLoop(_, _)
CrewLoop(crew, compressed_crew) ==
  IF crew = <<>> THEN compressed_crew
  ELSE LET person == Head(crew)
           job == GetD(person.d, "job", EmptyStr)
           compressed_person == compress_person(person)
       IN CrewLoop(Tail(crew),
                   IF job \in important_jobs /\ DOMAIN compressed_person # {}
                   THEN Append(compressed_crew, Dict_(compressed_person))
                   ELSE compressed_crew)

compress_crew_data(crew) ==
  IF ~Truthy(crew) THEN <<>> ELSE CrewLoop(crew.l, <<>>)

compress_video(video) ==
  Dict_([k \in {"id", "key", "name", "type", "site"} |-> Get(video.d, k)])

\* the inner loop of the priority pass, for one video_type
RECURSIVE PriorityInner(_, _, _, _)
PriorityInner(videos, video_type, limit, compressed_videos) ==
  IF videos = <<>> THEN compressed_videos
  ELSE LET video == Head(videos)
       IN PriorityInner(Tail(videos), video_type, limit,
                        IF Get(video.d, "type") = video_type /\ Len(compressed_videos) < limit
                        THEN Append(compressed_videos, compress_video(video))
                        ELSE compressed_videos)

\* the outer loop over priority_types
RECURSIVE PriorityOuter(_, _, _, _)
PriorityOuter(types, videos, limit, compressed_videos) ==
  IF types = <<>> THEN compressed_videos
  ELSE PriorityOuter(Tail(types), videos, limit,
                     PriorityInner(videos, Head(types), limit, compressed_videos))

IsPriorityType(ty) == \E i \in DOMAIN priority_types : priority_types[i] = ty

\* the fill pass over the other videos
RECURSIVE FillLoop(_, _, _)
FillLoop(videos, limit, compressed_videos) ==
  IF videos = <<>> \/ Len(compressed_videos) >= limit THEN compressed_videos
  ELSE LET video == Head(videos)
       IN FillLoop(Tail(videos), limit,
                   IF ~IsPriorityType(Get(video.d, "type"))
                   THEN Append(compressed_videos, compress_video(video))
                   ELSE compressed_videos)

\* a selection that takes the first  limit  videos as they come
compress_videos_data_input_order(videos, limit) ==
  IF ~Truthy(videos) THEN <<>>
  ELSE LET first == Prefix(videos.l, limit)
       IN [k \in DOMAIN first |-> compress_video(first[k])]

compress_videos_data(videos, limit) ==
  IF ~Truthy(videos) THEN <<>>
  ELSE LET first == PriorityOuter(priority_types, videos.l, limit, <<>>)
       IN IF Len(first) < limit THEN FillLoop(videos.l, limit, first) ELSE first

(***************************************************************************)
(* get_mdblist_data: the provider vocabulary of the Rating Source call.    *)
(* The response is an input of the model: None on a RequestException,      *)
(* else the decoded JSON.                                                  *)
(***************************************************************************)
mdb_media_type(media_type) == IF media_type = tv THEN show ELSE movie

(***************************************************************************)
(* compress_item_data(item, details, media_type); mdb_data is what its     *)
(* call of get_mdblist_data returned.                                      *)
(***************************************************************************)
\* if not media_type: media_type = item.get('media_type', 'movie')
resolve_media_type(item, media_type) ==
  IF ~Truthy(media_type) THEN GetD(item, "media_type", movie) ELSE media_type

\* round(item.get('vote_average', 0), 1) or round(item.get('popularity', 0), 1)
\* raises TypeError on a null
base_raises(item) ==
  \/ RoundRaises(GetD(item, "vote_average", Int_(0)))
  \/ RoundRaises(GetD(item, "popularity", Int_(0)))

base_fields(item, media_type) ==
  [k \in {"id", "media_type", "title", "original_title", "poster_path", "backdrop_path",
          "overview", "vote_average", "vote_count", "popularity", "release_date",
          "genre_ids", "adult", "original_language"} |->
     CASE k = "id" -> Get(item, "id")
       [] k = "media_type" -> media_type
       [] k = "title" -> Or_(Get(item, "title"), Get(item, "name"))
       [] k = "original_title" -> Or_(Get(item, "original_title"), Get(item, "original_name"))
       [] k = "poster_path" -> Get(item, "poster_path")
       [] k = "backdrop_path" -> Get(item, "backdrop_path")
       [] k = "overview" -> IF Truthy(Get(item, "overview"))
                            THEN Slice(GetD(item, "overview", EmptyStr), OverviewMax)
                            ELSE EmptyStr
       [] k = "vote_average" -> Round1(GetD(item, "vote_average", Int_(0)))
       [] k = "vote_count" -> GetD(item, "vote_count", Int_(0))
       [] k = "popularity" -> Round1(GetD(item, "popularity", Int_(0)))
       [] k = "release_date" -> Or_(Get(item, "release_date"), Get(item, "first_air_date"))
       [] k = "genre_ids" -> GetD(item, "genre_ids", EmptyList)
       [] k = "adult" -> GetD(item, "adult", Bool_(FALSE))
       [] k = "original_language" -> Get(item, "original_language")]

\* detail fields that carry the detail record's image candidates along unselected
common_detail_fields_with_images(details) ==
  [k \in {"budget", "revenue", "runtime", "status", "tagline", "homepage", "imdb_id",
          "spoken_languages", "production_companies", "production_countries", "genres",
          "images"} |->
     CASE k \in {"spoken_languages", "production_countries", "genres"} ->
            GetD(details, k, EmptyList)
       [] k = "production_companies" ->
            Slice(GetD(details, "production_companies", EmptyList), CompaniesMax)
       [] OTHER -> Get(details, k)]

common_detail_fields(details) ==
  [k \in {"budget", "revenue", "runtime", "status", "tagline", "homepage", "imdb_id",
          "spoken_languages", "production_companies", "production_countries", "genres"} |->
     CASE k \in {"spoken_languages", "production_countries", "genres"} ->
            GetD(details, k, EmptyList)
       [] k = "production_companies" ->
            Slice(GetD(details, "production_companies", EmptyList), CompaniesMax)
       [] OTHER -> Get(details, k)]

tv_fields(details) ==
  [k \in {"first_air_date", "last_air_date", "number_of_episodes", "number_of_seasons",
          "episode_run_time", "in_production", "networks", "origin_country", "type"} |->
     CASE k \in {"episode_run_time", "origin_country"} -> GetD(details, k, EmptyList)
       [] k = "networks" -> Slice(GetD(details, "networks", EmptyList), NetworksMax)
       [] OTHER -> Get(details, k)]

movie_fields(details) ==
  [k \in {"belongs_to_collection"} |-> Get(details, k)]

\* if 'credits' in details: ... detail_fields['cast'] / detail_fields['crew']
credits_fields(details) ==
  IF "credits" \notin DOMAIN details THEN EmptyDict
  ELSE LET credits == details["credits"].d
           compressed_cast ==
             IF "cast" \in DOMAIN credits
             THEN compress_cast_data(credits["cast"], CastLimit) ELSE <<>>
           compressed_crew ==
             IF "crew" \in DOMAIN credits
             THEN compress_crew_data(credits["crew"]) ELSE <<>>
       IN Update(IF compressed_cast # <<>> THEN "cast" :> List_(compressed_cast) ELSE EmptyDict,
                 IF compressed_crew # <<>> THEN "crew" :> List_(compressed_crew) ELSE EmptyDict)

\* if 'videos' in details and details['videos'].get('results'): ...
videos_fields(details) ==
  IF "videos" \in DOMAIN details /\ Truthy(Get(details["videos"].d, "results"))
  THEN LET compressed_videos ==
             compress_videos_data(details["videos"].d["results"], VideosLimit)
       IN IF compressed_videos # <<>> THEN "videos" :> List_(compressed_videos) ELSE EmptyDict
  ELSE EmptyDict

detail_fields_of(details, media_type) ==
  LET typed == IF media_type = tv THEN tv_fields(details)
               ELSE IF media_type = movie THEN movie_fields(details)
               ELSE EmptyDict
  IN Update(Update(Update(common_detail_fields(details), typed),
                   credits_fields(details)),
            videos_fields(details))

\* a pruning test that keeps empty lists
NotNoneNotEmpty_keeps_lists(v) == ~IsNone(v) /\ ~IsEmptyStr(v)

\* if value is not None and value != '' and value != []
NotNoneNotEmpty(v) == ~IsNone(v) /\ ~IsEmptyStr(v) /\ ~IsEmptyList(v)

\* {k: v for k, v in d.items() if v is not None and v != '' and v != []}
Prune(d) == Only(d, {k \in DOMAIN d : NotNoneNotEmpty(d[k])})

\* the fields the mdblist response adds to  compressed
mdb_fields(mdb_data) ==
  IF ~Truthy(mdb_data) THEN EmptyDict
  ELSE LET mdb == mdb_data.d
           main_ratings ==
             IF "ratings" \in DOMAIN mdb /\ Truthy(mdb["ratings"])
             THEN main_ratings_of(mdb["ratings"]) ELSE EmptyDict
           ratings_part ==
             IF DOMAIN main_ratings # {}
             THEN "external_ratings" :> Dict_(main_ratings) ELSE EmptyDict
           others == {k \in {"certification", "age_rating", "trailer"} : Truthy(Get(mdb, k))}
       IN Update(ratings_part, [k \in others |-> mdb[k]])

\* lines 284-394, once media_type is resolved
compress_resolved(item, details, media_type, mdb_data) ==
  IF base_raises(item) THEN [raised |-> TRUE, value |-> EmptyDict]
  ELSE LET compressed0 == base_fields(item, media_type)
           compressed1 ==
             IF Truthy(details)
             THEN Update(compressed0, Prune(detail_fields_of(details.d, media_type)))
             ELSE compressed0
           compressed2 == Update(compressed1, mdb_fields(mdb_data))
       IN [raised |-> FALSE, value |-> Prune(compressed2)]

\* a normalizer that returns nothing for an item without an id
compress_item_data_needs_id(item, details, media_type_arg, mdb_data) ==
  IF IsNone(Get(item, "id")) /\ ~base_raises(item)
  THEN [raised |-> FALSE, value |-> EmptyDict]
  ELSE compress_resolved(item, details, resolve_media_type(item, media_type_arg), mdb_data)

\* a normalizer that gives the item up when the Rating Source answered nothing
compress_item_data_needs_mdb(item, details, media_type_arg, mdb_data) ==
  IF ~Truthy(mdb_data) /\ ~base_raises(item)
  THEN [raised |-> FALSE, value |-> EmptyDict]
  ELSE compress_resolved(item, details, resolve_media_type(item, media_type_arg), mdb_data)

compress_item_data(item, details, media_type_arg, mdb_data) ==
  compress_resolved(item, details, resolve_media_type(item, media_type_arg), mdb_data)

(***************************************************************************)
(* Inputs: what the Catalog, Detail and Rating Sources can answer.         *)
(***************************************************************************)
Plot == Str_(<<"P", "l", "o", "t">>)
PaddedPlot == Str_(<<" ", "A", "\n">>)
BlankOverview == Str_(<<" ", "\n">>)
Title == Str_(<<"T">>)
Date == Str_(<<"2", "0", "2", "4">>)
Path == Str_(<<"/", "p">>)
Lang == Str_(<<"e", "n">>)

\* a movie of a type-homogeneous page (no media_type discriminant)
ItemMovie ==
  [id |-> Int_(1), title |-> Title, original_title |-> Title, poster_path |-> Path,
   backdrop_path |-> None, overview |-> Plot, vote_average |-> Float_(725),
   vote_count |-> Int_(10), popularity |-> Float_(1236), release_date |-> Date,
   genre_ids |-> List_(<<Int_(28)>>), adult |-> Bool_(FALSE), original_language |-> Lang]

\* a show of the trending page: name / first_air_date instead of title / release_date
ItemTv ==
  [id |-> Int_(2), media_type |-> tv, name |-> Title, original_name |-> Title,
   poster_path |-> Path, overview |-> PaddedPlot, vote_average |-> Int_(8),
   vote_count |-> Int_(0), popularity |-> Float_(40), first_air_date |-> Date,
   genre_ids |-> EmptyList, original_language |-> Lang]

\* fully populated, but overview ""
ItemBlank == [ItemMovie EXCEPT !.id = Int_(3), !.overview = EmptyStr]

\* fully populated, but a whitespace-only overview
ItemSpace == [ItemMovie EXCEPT !.id = Int_(4), !.overview = BlankOverview]

\* an overview, but no id; a trending entry of another media type
ItemNoId ==
  [media_type |-> other_media, name |-> Title, overview |-> Plot, popularity |-> Float_(5)]

\* vote_average is JSON null: round() raises TypeError
ItemNullVote == [ItemMovie EXCEPT !.id = Int_(6), !.vote_average = None]

\* a trending entry that is neither movie nor tv, with an id
ItemPerson ==
  [id |-> Int_(7), media_type |-> other_media, name |-> Title, overview |-> Plot,
   vote_average |-> Float_(50), popularity |-> Float_(5)]

\* id 0: present, but falsy
ItemZeroId == [ItemMovie EXCEPT !.id = Int_(0)]

\* the items listing pages are built from, and all items
PageItems == {ItemMovie, ItemTv, ItemBlank, ItemSpace, ItemNoId}
Items == PageItems \cup {ItemNullVote, ItemPerson, ItemZeroId}

Actor == Dict_([id |-> Int_(11), name |-> Title, character |-> EmptyStr, profile_path |-> None])
ActorEmpty == Dict_([name |-> EmptyStr])
CrewDirector == Dict_([id |-> Int_(12), name |-> Title, job |-> Director])
CrewGrip == Dict_([id |-> Int_(13), name |-> Title, job |-> Str_(<<"G", "r", "i", "p">>)])
Video(ty) == Dict_([id |-> Str_(<<"v">>), key |-> Str_(<<"k">>), type |-> ty])

\* a detail record: movie and tv fields, credits and videos
DetailFull ==
  Dict_([budget |-> Int_(0), revenue |-> None, runtime |-> Int_(90), status |-> Title,
         tagline |-> EmptyStr, imdb_id |-> Str_(<<"t", "t", "1">>),
         spoken_languages |-> EmptyList, genres |-> List_(<<Dict_([id |-> Int_(28)])>>),
         belongs_to_collection |-> None,
         number_of_seasons |-> Int_(2), episode_run_time |-> EmptyList,
         networks |-> List_(<<Dict_([id |-> Int_(1)])>>),
         credits |-> Dict_([cast |-> List_(<<Actor, ActorEmpty>>),
                            crew |-> List_(<<CrewGrip, CrewDirector>>)]),
         videos |-> Dict_([results |-> List_(<<Video(Clip), Video(Trailer)>>)])])

\* get_movie_details / get_tv_details: {} on a RequestException, else the JSON
DetailFailed == Dict_(EmptyDict)
DetailResponses == {DetailFailed, DetailFull}

Rating(source, value) == Dict_([source |-> source, value |-> value])
unknown == Str_(<<"u", "n", "k", "n", "o", "w", "n">>)

MdbFull ==
  Dict_([ratings |-> List_(<<Rating(imdb, Float_(750)), Rating(unknown, Float_(900)),
                             Rating(tmdb, None), Rating(tomatoes, Int_(0))>>),
         certification |-> Str_(<<"P", "G">>), age_rating |-> Int_(0),
         trailer |-> Str_(<<"u", "r", "l">>)])

\* get_mdblist_data: None on a RequestException, else the JSON
MdbResponses == {None, MdbFull}

(***************************************************************************)
(* Bounds of the model.                                                    *)
(***************************************************************************)
MaxPage == 3
MaxLimit == 2

RECURSIVE SeqsUpTo(_, _)
SeqsUpTo(S, n) ==
  IF n = 0 THEN {<<>>}
  ELSE LET shorter == SeqsUpTo(S, n - 1)
       IN shorter \cup {Append(q, x) : q \in {r \in shorter : Len(r) = n - 1}, x \in S}

\* the sequences of S of length up to n that list no element twice
DistinctSeqsUpTo(S, n) ==
  {q \in SeqsUpTo(S, n) : \A a, b \in DOMAIN q : a # b => q[a] # q[b]}

\* the listing pages: every page of up to MaxPage different items, two pages
\* with an item that makes compress_item_data raise, and two with an entry of
\* another media type and an item of id 0; NoListing is a truthy
\* response that is no listing (an error document)
Pages ==
  {[results |-> List_(p)] : p \in DistinctSeqsUpTo(PageItems, MaxPage)}
    \cup {[results |-> List_(<<ItemNullVote>>)],
          [results |-> List_(<<ItemMovie, ItemNullVote, ItemTv>>)],
          [results |-> List_(<<ItemPerson, ItemTv>>)],
          [results |-> List_(<<ItemZeroId, ItemPerson, ItemMovie>>)]}
NoListing == [status_code |-> Int_(34)]
MediaTypeArgs == {None, movie, tv}

(***************************************************************************)
(* generate_homepage_data: data_sources                                    *)
(***************************************************************************)
data_sources ==
  << [key |-> "trending", media_type |-> None, limit |-> 15, fetch_details |-> TRUE],
     [key |-> "popularMovie", media_type |-> movie, limit |-> 20, fetch_details |-> TRUE],
     [key |-> "popularTv", media_type |-> tv, limit |-> 20, fetch_details |-> TRUE],
     [key |-> "topRatedMovie", media_type |-> movie, limit |-> 15, fetch_details |-> TRUE],
     [key |-> "topRatedTv", media_type |-> tv, limit |-> 15, fetch_details |-> TRUE],
     [key |-> "nowPlaying", media_type |-> movie, limit |-> 15, fetch_details |-> FALSE],
     [key |-> "upcoming", media_type |-> movie, limit |-> 15, fetch_details |-> FALSE] >>

SourceKeys == {data_sources[n].key : n \in DOMAIN data_sources}

\* the listing pages the Catalog Source answers during a homepage run: one with
\* an item to emit, one whose item makes compress_item_data raise
HomePages ==
  {[results |-> List_(<<ItemBlank, ItemMovie>>)],
   [results |-> List_(<<ItemNullVote>>)]}

(***************************************************************************)
(* State.                                                                  *)
(*   h_pc, h_idx, homepage_data   generate_homepage_data: position, index  *)
(*                                of the source in turn, the result        *)
(*   p_pc                         process_data_list: idle / loop /         *)
(*                                returned / raised                        *)
(*   items, media_type, limit, fetch_details   its arguments (items is     *)
(*                                data['results'])                         *)
(*   filtered_items               page positions of the items kept         *)
(*   i                            items of filtered_items already handled  *)
(*   processed_items              the output list                          *)
(*   calls                        the outbound calls of this               *)
(*                                process_data_list call, in order         *)
(*   origin                       per emitted item: its page position and  *)
(*                                the responses it was built from          *)
(*   last_outcome                 what the last source of the homepage run *)
(*                                did (none / exception / empty / listed)  *)
(*   u_pc, u_in, u_out            a single call of compress_item_data made *)
(*                                on its own: position, arguments, result  *)
(***************************************************************************)
VARIABLES h_pc, h_idx, homepage_data, p_pc, items, media_type, limit, fetch_details,
          filtered_items, i, processed_items, calls, origin, last_outcome,
          u_pc, u_in, u_out

vars == <<h_pc, h_idx, homepage_data, p_pc, items, media_type, limit, fetch_details,
          filtered_items, i, processed_items, calls, origin, last_outcome,
          u_pc, u_in, u_out>>

\* one call of a function on its own: none / ready / done, its argument, its result
unit_vars == <<u_pc, u_in, u_out>>

home_vars == <<h_pc, h_idx, homepage_data, last_outcome>>
frame_vars == <<items, media_type, limit, fetch_details, filtered_items>>

Init ==
  /\ h_pc = "idle"
  /\ h_idx = 0
  /\ homepage_data = EmptyDict
  /\ p_pc = "idle"
  /\ items = <<>>
  /\ media_type = None
  /\ limit = 0
  /\ fetch_details = FALSE
  /\ filtered_items = <<>>
  /\ i = 0
  /\ processed_items = <<>>
  /\ calls = <<>>
  /\ origin = <<>>
  /\ last_outcome = "none"
  /\ u_pc = "none"
  /\ u_in = None
  /\ u_out = None

(***************************************************************************)
(* process_data_list                                                       *)
(***************************************************************************)
\* a filter that forgets strip()
has_overview_unstripped(item) == GetD(item, "overview", EmptyStr).s # <<>>

\* overview = item.get('overview', '').strip(); if overview:
has_overview(item) == Strip(GetD(item, "overview", EmptyStr).s) # <<>>

\* a list processor that truncates the page before it filters
filter_items_truncate_first(page, lim) ==
  SelectSeq(Prefix([n \in DOMAIN page |-> n], lim), LAMBDA n : has_overview(page[n]))

\* the filter loop, as page positions, then filtered_items[:limit]
filter_items(page, lim) ==
  Prefix(SelectSeq([n \in DOMAIN page |-> n], LAMBDA n : has_overview(page[n])), lim)

\* lines 398-415: the frame of a call that found a listing
EnterProcess(data, mt, lim, fd) ==
  /\ p_pc' = "loop"
  /\ items' = data["results"].l
  /\ media_type' = mt
  /\ limit' = lim
  /\ fetch_details' = fd
  /\ filtered_items' = filter_items(data["results"].l, lim)
  /\ i' = 0
  /\ processed_items' = <<>>
  /\ calls' = <<>>
  /\ origin' = <<>>

\* a call made by generate_homepage_data is over: its frame is gone
DropFrame ==
  /\ p_pc' = "idle"
  /\ items' = <<>>
  /\ media_type' = None
  /\ limit' = 0
  /\ fetch_details' = FALSE
  /\ filtered_items' = <<>>
  /\ i' = 0
  /\ processed_items' = <<>>
  /\ calls' = <<>>
  /\ origin' = <<>>

\* process_data_list called on its own
CallProcess ==
  /\ UNCHANGED unit_vars
  /\ h_pc = "idle" /\ p_pc = "idle"
  /\ \E data \in Pages \cup {NoListing}, mt \in MediaTypeArgs, lim \in 0..MaxLimit,
        fd \in BOOLEAN :
       IF "results" \notin DOMAIN data
       THEN /\ p_pc' = "returned"
            /\ media_type' = mt /\ limit' = lim /\ fetch_details' = fd
            /\ UNCHANGED <<items, filtered_items, i, processed_items, calls, origin>>
       ELSE EnterProcess(data, mt, lim, fd)
  /\ UNCHANGED home_vars

\* item_media_type = media_type or item.get('media_type', 'movie')
item_media_type_of(item, mt) == Or_(mt, GetD(item, "media_type", movie))

\* a detail fetch that ignores fetch_details
detail_call_always(item, mt, fd) ==
  LET item_media_type == item_media_type_of(item, mt)
  IN IF Truthy(Get(item, "id"))
     THEN IF item_media_type = movie THEN "get_movie_details"
          ELSE IF item_media_type = tv THEN "get_tv_details" ELSE "none"
     ELSE "none"

\* a detail fetch that takes every type other than tv for a movie, as
\* get_mdblist_data does
detail_call_movie_default(item, mt, fd) ==
  IF fd /\ Truthy(Get(item, "id"))
  THEN IF item_media_type_of(item, mt) = tv THEN "get_tv_details" ELSE "get_movie_details"
  ELSE "none"

\* if fetch_details and item_id: movie -> get_movie_details, tv -> get_tv_details
detail_call(item, mt, fd) ==
  LET item_id == Get(item, "id")
      item_media_type == item_media_type_of(item, mt)
  IN IF fd /\ Truthy(item_id)
     THEN IF item_media_type = movie THEN "get_movie_details"
          ELSE IF item_media_type = tv THEN "get_tv_details" ELSE "none"
     ELSE "none"

\* an except branch that records nothing for the key
on_exception_skip(hd, key) == hd

\* except Exception: homepage_data[key] = []
on_exception(hd, key) == Update(hd, key :> <<>>)

\* what the current source's key is set to, and the move to the next source
NextSource(result, outcome) ==
  /\ homepage_data' = IF outcome = "exception"
                      THEN on_exception(homepage_data, data_sources[h_idx].key)
                      ELSE Update(homepage_data, data_sources[h_idx].key :> result)
  /\ h_idx' = h_idx + 1
  /\ last_outcome' = outcome
  /\ UNCHANGED h_pc

\* a pass that asks the Rating Source a second time
calls_of_pass_retried(detail_calls, mdb_call) == detail_calls \o <<mdb_call, mdb_call>>

\* the outbound calls of one pass, in the order the statements run: the detail
\* fetch of lines 426-431 if there is one, then get_mdblist_data inside
\* compress_item_data; each is one  session.get  with no loop around it
calls_of_pass(detail_calls, mdb_call) == detail_calls \o <<mdb_call>>

\* one pass of the loop body, lines 417-437
ProcessItem ==
  /\ UNCHANGED unit_vars
  /\ p_pc = "loop" /\ i < Len(filtered_items)
  /\ LET pos == filtered_items[i + 1]
         item == items[pos]
         item_media_type == item_media_type_of(item, media_type)
         api == detail_call(item, media_type, fetch_details)
     IN \E detail_response \in DetailResponses, mdb_data \in MdbResponses :
          LET details == IF api = "none" THEN None ELSE detail_response
              detail_calls ==
                IF api = "none" THEN <<>>
                ELSE <<[api |-> api, pos |-> pos, arg |-> Get(item, "id"), kind |-> item_media_type]>>
              compressed_item == compress_item_data(item, details, item_media_type, mdb_data)
              mdb_call == [api |-> "get_mdblist_data", pos |-> pos, arg |-> Get(item, "id"),
                           kind |-> mdb_media_type(resolve_media_type(item, item_media_type))]
          IN /\ api = "none" => detail_response = DetailFailed
             /\ compressed_item.raised => mdb_data = None
             /\ IF compressed_item.raised
                THEN \* the exception leaves process_data_list
                     IF h_pc = "loop"
                     THEN DropFrame /\ NextSource(<<>>, "exception")
                     ELSE /\ p_pc' = "raised"
                          /\ calls' = calls \o detail_calls
                          /\ UNCHANGED <<frame_vars, i, processed_items, origin, home_vars>>
                ELSE /\ calls' = calls \o calls_of_pass(detail_calls, mdb_call)
                     /\ i' = i + 1
                     /\ IF DOMAIN compressed_item.value # {}
                        THEN /\ processed_items' = Append(processed_items, compressed_item.value)
                             /\ origin' = Append(origin, [pos |-> pos, details |-> details,
                                                          mdb_data |-> mdb_data])
                        ELSE UNCHANGED <<processed_items, origin>>
                     /\ UNCHANGED <<p_pc, frame_vars, home_vars>>

\* return processed_items
ProcessReturn ==
  /\ UNCHANGED unit_vars
  /\ p_pc = "loop" /\ i = Len(filtered_items)
  /\ IF h_pc = "loop"
     THEN DropFrame /\ NextSource(processed_items, "listed")
     ELSE /\ p_pc' = "returned"
          /\ UNCHANGED <<frame_vars, i, processed_items, calls, origin, home_vars>>

(***************************************************************************)
(* generate_homepage_data                                                  *)
(***************************************************************************)
HomepageStart ==
  /\ UNCHANGED unit_vars
  /\ h_pc = "idle" /\ p_pc = "idle"
  /\ h_pc' = "loop"
  /\ h_idx' = 1
  /\ homepage_data' = EmptyDict
  /\ UNCHANGED <<last_outcome, p_pc, frame_vars, i, processed_items, calls, origin>>

AtSource == h_pc = "loop" /\ p_pc = "idle" /\ h_idx \in DOMAIN data_sources

\* fetch_func() raises something other than RequestException: except Exception
HomepageFetchRaises ==
  /\ UNCHANGED unit_vars
  /\ AtSource
  /\ NextSource(<<>>, "exception")
  /\ UNCHANGED <<p_pc, frame_vars, i, processed_items, calls, origin>>

\* fetch_func() returns {} (a RequestException it caught, or an empty document)
HomepageFetchEmpty ==
  /\ UNCHANGED unit_vars
  /\ AtSource
  /\ NextSource(<<>>, "empty")
  /\ UNCHANGED <<p_pc, frame_vars, i, processed_items, calls, origin>>

\* fetch_func() returns a document: process_data_list(raw_data, media_type, limit, fetch_details)
HomepageFetchData ==
  /\ UNCHANGED unit_vars
  /\ AtSource
  /\ \E raw_data \in HomePages :
       LET source == data_sources[h_idx]
       IN IF "results" \notin DOMAIN raw_data
          THEN /\ NextSource(<<>>, "listed")
               /\ UNCHANGED <<p_pc, frame_vars, i, processed_items, calls, origin>>
          ELSE /\ EnterProcess(raw_data, source.media_type, source.limit, source.fetch_details)
               /\ UNCHANGED home_vars

\* return homepage_data
HomepageReturn ==
  /\ UNCHANGED unit_vars
  /\ h_pc = "loop" /\ p_pc = "idle" /\ h_idx = Len(data_sources) + 1
  /\ h_pc' = "done"
  /\ UNCHANGED <<h_idx, homepage_data, last_outcome, p_pc, frame_vars, i, processed_items,
                 calls, origin>>

Next ==
  \/ CallProcess
  \/ ProcessItem
  \/ ProcessReturn
  \/ HomepageStart
  \/ HomepageFetchRaises
  \/ HomepageFetchEmpty
  \/ HomepageFetchData
  \/ HomepageReturn

Spec == Init /\ [][Next]_vars

\* process_data_list called on its own, with any page, media type, limit and flag
NextList ==
  \/ CallProcess
  \/ ProcessItem
  \/ ProcessReturn

SpecList == Init /\ [][NextList]_vars

\* one run of generate_homepage_data, as main() makes it
NextHome ==
  \/ HomepageStart
  \/ HomepageFetchRaises
  \/ HomepageFetchEmpty
  \/ HomepageFetchData
  \/ ProcessItem
  \/ ProcessReturn
  \/ HomepageReturn

SpecHome == Init /\ [][NextHome]_vars

(***************************************************************************)
(* compress_item_data called on its own.                                   *)
(***************************************************************************)
MaxRatings == 3

Idle ==
  /\ h_pc = "idle" /\ h_idx = 0 /\ homepage_data = EmptyDict /\ p_pc = "idle"
  /\ items = <<>> /\ media_type = None /\ limit = 0 /\ fetch_details = FALSE
  /\ filtered_items = <<>> /\ i = 0 /\ processed_items = <<>> /\ calls = <<>>
  /\ origin = <<>> /\ last_outcome = "none"

list_vars == <<h_pc, h_idx, homepage_data, p_pc, items, media_type, limit, fetch_details,
               filtered_items, i, processed_items, calls, origin, last_outcome>>

\* compressed_item = self.compress_item_data(item, details, media_type)
Normalize ==
  /\ u_pc = "ready"
  /\ u_pc' = "done"
  /\ u_out' = compress_item_data(u_in.item, u_in.details, u_in.media_type, u_in.mdb_data)
  /\ UNCHANGED <<u_in, list_vars>>

\* the rating entries the Rating Source can list
RatingValues == {None, EmptyStr, Int_(0), Float_(750), Float_(900), Float_(764)}
RatingEntries == {Rating(source, value) : source \in {imdb, unknown}, value \in RatingValues}
RatingLists == SeqsUpTo(RatingEntries, MaxRatings)

\* an item normalized with every rating list as the Rating Source's answer
InitRatings ==
  /\ Idle
  /\ u_pc = "ready"
  /\ u_in \in {[item |-> ItemMovie, details |-> None, media_type |-> movie,
                mdb_data |-> Dict_([ratings |-> List_(ratings)])] : ratings \in RatingLists}
  /\ u_out = None

SpecRatings == InitRatings /\ [][Normalize]_vars

\* detail records and rating responses beyond those of the list runs
DetailSparse ==
  Dict_([homepage |-> EmptyStr, production_companies |-> EmptyList,
         credits |-> Dict_([cast |-> List_(<<ActorEmpty>>), crew |-> List_(<<CrewGrip>>)]),
         videos |-> Dict_([results |-> EmptyList])])
MdbBare ==
  Dict_([ratings |-> List_(<<Rating(imdb, Int_(0)), Rating(unknown, Float_(900))>>),
         certification |-> EmptyStr, trailer |-> None])
MdbNoRatings == Dict_([age_rating |-> Int_(12)])

\* every combination of listing item, detail record, media type and rating response
InitItem ==
  /\ Idle
  /\ u_pc = "ready"
  /\ u_in \in [item : Items,
               details : {None, DetailFailed, DetailFull, DetailSparse},
               media_type : MediaTypeArgs,
               mdb_data : {None, Dict_(EmptyDict), MdbFull, MdbBare, MdbNoRatings}]
  /\ u_out = None

SpecItem == InitItem /\ [][Normalize]_vars


(***************************************************************************)
(* compress_videos_data called on its own.                                 *)
(***************************************************************************)
MaxVideos == 4
MaxVideoCap == 3

Featurette == Str_(<<"F", "e", "a", "t", "u", "r", "e", "t", "t", "e">>)
VideoOf(id, ty) == Dict_([id |-> Str_(<<id>>), key |-> Str_(<<"k">>), type |-> ty])

\* the videos of a detail record: two trailers, a teaser, a clip, a featurette
\* and a video with no type key
VideoPool ==
  {VideoOf("a", Clip), VideoOf("b", Trailer), VideoOf("c", Featurette),
   VideoOf("d", Teaser), VideoOf("e", Trailer),
   Dict_([id |-> Str_(<<"f">>), name |-> Str_(<<"n">>)])}

\* every video list with every cap from 0 to MaxVideoCap
InitVideos ==
  /\ Idle
  /\ u_pc = "ready"
  /\ u_in \in [videos : {List_(l) : l \in DistinctSeqsUpTo(VideoPool, MaxVideos)}, limit : 0..MaxVideoCap]
  /\ u_out = None

\* compress_videos_data(videos, limit)
CompressVideos ==
  /\ u_pc = "ready"
  /\ u_pc' = "done"
  /\ u_out' = compress_videos_data(u_in.videos, u_in.limit)
  /\ UNCHANGED <<u_in, list_vars>>

SpecVideos == InitVideos /\ [][CompressVideos]_vars

(***************************************************************************)
(* The Image Selector.  src/fetch_movie_data.py has none: compress_item_data*)
(* never reads the detail record's images.  select is the selector as the  *)
(* specification describes it (section 4.1), applied to the same detail    *)
(* record that compress_item_data is given.                                *)
(***************************************************************************)
perLanguageLimit == 2
bucketLimit == 3
MaxImages == 4

zh == Str_(<<"z", "h">>)
en == Str_(<<"e", "n">>)
fr == Str_(<<"f", "r">>)
Buckets == {"backdrops", "posters", "logos"}
LanguageGroups == <<zh, en, None>>

Image(lang, width, vote) ==
  Dict_([iso_639_1 |-> lang, width |-> Int_(width), vote_average |-> Int_(vote)])

\* a precedes-or-ties b, descending: by (width, vote_average), or by vote_average alone
Precedes(by_width, a, b) ==
  IF by_width
  THEN \/ a.d["width"].n > b.d["width"].n
       \/ a.d["width"].n = b.d["width"].n /\ a.d["vote_average"].n >= b.d["vote_average"].n
  ELSE a.d["vote_average"].n >= b.d["vote_average"].n

\* x put into the descending sequence  sorted  after everything that precedes or ties it
RECURSIVE InsertDesc(_, _, _)
InsertDesc(by_width, x, sorted) ==
  IF sorted = <<>> THEN <<x>>
  ELSE IF Precedes(by_width, Head(sorted), x)
       THEN <<Head(sorted)>> \o InsertDesc(by_width, x, Tail(sorted))
       ELSE <<x>> \o sorted

\* a stable descending sort
RECURSIVE SortDesc(_, _, _)
SortDesc(by_width, todo, sorted) ==
  IF todo = <<>> THEN sorted
  ELSE SortDesc(by_width, Tail(todo), InsertDesc(by_width, Head(todo), sorted))

\* steps 1 to 3 for one language group: its candidates, by (width, vote_average),
\* the top perLanguageLimit
take_group(candidates, lang, per_language) ==
  Prefix(SortDesc(TRUE,
                  SelectSeq(candidates, LAMBDA c : Get(c.d, "iso_639_1") = lang), <<>>),
         per_language)

\* step 3: the groups' picks, target language, then fallback, then untagged
taken(candidates, per_language) ==
  take_group(candidates, zh, per_language)
    \o take_group(candidates, en, per_language)
    \o take_group(candidates, None, per_language)

\* step 4: by vote_average alone, the top bucketLimit
select_bucket(candidates, per_language, bucket_limit) ==
  Prefix(SortDesc(FALSE, taken(candidates, per_language), <<>>), bucket_limit)

\* a bucket that is missing or selects nothing is left out of the result
select(images, per_language, bucket_limit) ==
  LET kept == {b \in DOMAIN images \cap Buckets :
                 select_bucket(images[b].l, per_language, bucket_limit) # <<>>}
  IN [b \in kept |-> select_bucket(images[b].l, per_language, bucket_limit)]

\* the image candidates a detail record can carry in a bucket
ImageCandidates ==
  {Image(zh, 2, 1), Image(zh, 1, 2), Image(en, 1, 2), Image(None, 1, 1), Image(fr, 2, 2)}

\* five zh candidates and one en candidate
PostersFive ==
  <<Image(zh, 1, 1), Image(zh, 2, 1), Image(zh, 1, 2), Image(en, 1, 2), Image(zh, 2, 2),
    Image(zh, 1, 1)>>

DetailWithImages(backdrops) ==
  Dict_([runtime |-> Int_(90),
         images |-> Dict_([backdrops |-> List_(backdrops), posters |-> List_(PostersFive),
                           logos |-> EmptyList])])

InitImages ==
  /\ Idle
  /\ u_pc = "ready"
  /\ u_in \in {[item |-> ItemMovie, details |-> DetailWithImages(backdrops),
                media_type |-> movie, mdb_data |-> None] :
               backdrops \in SeqsUpTo(ImageCandidates, MaxImages)}
  /\ u_out = None

\* the item normalized, and the selector run on the same detail record
NormalizeWithImages ==
  /\ u_pc = "ready"
  /\ u_pc' = "done"
  /\ u_out' = [item |-> compress_item_data(u_in.item, u_in.details, u_in.media_type,
                                           u_in.mdb_data).value,
               selected |-> select(u_in.details.d["images"].d, perLanguageLimit, bucketLimit)]
  /\ UNCHANGED <<u_in, list_vars>>

SpecImages == InitImages /\ [][NormalizeWithImages]_vars


(***************************************************************************)
(* Properties of process_data_list (SpecList).                             *)
(***************************************************************************)
\* a text with no character other than whitespace (stated without Strip)
BlankText(s) == \A n \in DOMAIN s : s[n] \in Whitespace

\* the page positions whose item has an overview that is not blank
NonBlank == {n \in DOMAIN items : ~BlankText(GetD(items[n], "overview", EmptyStr).s)}

\* how many non-blank items precede page position n
RankOf(n) == Cardinality({m \in NonBlank : m < n})

Min(a, b) == IF a <= b THEN a ELSE b

DetailApis == {"get_movie_details", "get_tv_details"}

\* C1: no item whose overview is blank or whitespace-only is in the output of
\* process_data_list, and every emitted item carries an overview that is its
\* page item's and is not blank.
C1_NoBlankOverviewEmitted ==
  /\ Len(origin) = Len(processed_items)
  /\ \A k \in DOMAIN processed_items :
       /\ origin[k].pos \in NonBlank
       /\ "overview" \in DOMAIN processed_items[k]
       /\ processed_items[k]["overview"] = items[origin[k].pos]["overview"]
       /\ ~BlankText(processed_items[k]["overview"].s)

C1_Witness ==
  /\ p_pc = "returned"
  /\ \E n, m \in DOMAIN items : items[n] = ItemBlank /\ items[m] = ItemSpace
  /\ processed_items # <<>>

\* C2: when process_data_list returns, its output is, one for one and in page
\* order, the first  limit  items of the page's non-blank items: the k-th output
\* comes from the k-th non-blank page item, and there are
\* min(limit, number of non-blank items) of them.
C2_FilterThenTruncate ==
  p_pc = "returned" /\ items # <<>> =>
    /\ Len(processed_items) = Min(limit, Cardinality(NonBlank))
    /\ \A k \in DOMAIN processed_items :
         /\ origin[k].pos \in NonBlank
         /\ RankOf(origin[k].pos) = k - 1
         /\ Get(processed_items[k], "id") = Get(items[origin[k].pos], "id")
         /\ processed_items[k]["overview"] = items[origin[k].pos]["overview"]

\* three items, the first with overview "", limit 2: both non-blank items come out
C2_Witness ==
  /\ p_pc = "returned"
  /\ limit = 2
  /\ Len(items) = 3
  /\ items[1] = ItemBlank /\ items[2] = ItemTv /\ items[3] = ItemMovie
  /\ Len(processed_items) = 2
  /\ processed_items[1]["id"] = Int_(2) /\ processed_items[2]["id"] = Int_(1)

\* C7: every Detail Source call of a process_data_list call is for an item that
\* survived the overview filter and the limit, and none is made when
\* fetch_details is false.
C7_DetailCallsOnlyForSurvivors ==
  \A c \in DOMAIN calls :
    calls[c].api \in DetailApis =>
      /\ fetch_details
      /\ calls[c].pos \in NonBlank
      /\ RankOf(calls[c].pos) < limit

\* a page with a blank item and an item beyond the limit, both with an id, and a
\* detail call made for the one survivor
C7_Witness ==
  /\ p_pc = "returned"
  /\ fetch_details
  /\ limit = 1
  /\ Len(items) = 3
  /\ items[1] = ItemBlank /\ items[2] = ItemMovie /\ items[3] = ItemTv
  /\ \E c \in DOMAIN calls : calls[c].api \in DetailApis /\ calls[c].pos = 2

\* C8 as stated: an item whose id is missing or null is not appended to the
\* output of process_data_list.
C8_Original_NoIdNotEmitted ==
  \A k \in DOMAIN origin : ~IsNone(Get(items[origin[k].pos], "id"))

\* C8 amended: compress_item_data never returns an empty structure, so every
\* item the loop handled is appended; an item whose id is missing or null is
\* emitted without the id key, with its overview, vote_average and popularity.
C8_NoIdStillEmitted ==
  /\ p_pc \in {"loop", "returned"} => Len(processed_items) = i
  /\ \A k \in DOMAIN processed_items :
       /\ {"overview", "vote_average", "popularity"} \subseteq DOMAIN processed_items[k]
       /\ IsNone(Get(items[origin[k].pos], "id")) => "id" \notin DOMAIN processed_items[k]

C8_Witness ==
  /\ p_pc = "returned"
  /\ \E k \in DOMAIN processed_items :
       /\ items[origin[k].pos] = ItemNoId
       /\ "id" \notin DOMAIN processed_items[k]

RatingKeys == {"external_ratings", "certification", "age_rating", "trailer"}

Restrict(d, ks) == [k \in DOMAIN d \cap ks |-> d[k]]

\* C9: an item whose Rating Source call failed is emitted with no rating,
\* certification, age-rating or trailer key and otherwise exactly the keys and
\* values it has when the call succeeds, and the loop goes on: every item the
\* loop handled is in the output.
C9_RatingFailureNotFatal ==
  /\ p_pc \in {"loop", "returned"} => Len(processed_items) = i
  /\ p_pc = "returned" => i = Len(filtered_items)
  /\ \A k \in DOMAIN processed_items :
       origin[k].mdb_data = None =>
         /\ DOMAIN processed_items[k] \cap RatingKeys = {}
         /\ \A m \in MdbResponses :
              LET item == items[origin[k].pos]
                  with == compress_item_data(item, origin[k].details,
                                             item_media_type_of(item, media_type), m).value
              IN processed_items[k] = Restrict(with, DOMAIN with \ RatingKeys)

\* the first item's rating call failed, it has its detail fields, and the second
\* item was still processed, with ratings
C9_Witness ==
  /\ p_pc = "returned"
  /\ Len(processed_items) = 2
  /\ origin[1].mdb_data = None /\ origin[1].details = DetailFull
  /\ "cast" \in DOMAIN processed_items[1]
  /\ "external_ratings" \in DOMAIN processed_items[2]

\* the page positions of the items the loop has handled so far
HandledPos == {filtered_items[k] : k \in 1..i}

\* the trace indices of the Rating Source calls made for the item at  pos
RatingCallsAt(pos) ==
  {c \in DOMAIN calls : calls[c].pos = pos /\ calls[c].api = "get_mdblist_data"}

\* C11: the outbound calls of a process_data_list call are single-attempt and
\* sequential: the trace holds calls only for items the loop reached, the calls
\* of an earlier item all come before those of a later one, an item has at most
\* two calls, a Detail Source call immediately followed by a Rating Source call,
\* so no call is ever issued twice, and every item the loop handled has exactly
\* one Rating Source call; a pass whose normalization raised ends the trace
\* with at most its one Detail Source call.
C11_SingleAttemptSequential ==
  /\ \A c \in DOMAIN calls :
       calls[c].pos \in HandledPos \cup
                        (IF p_pc = "raised" THEN {filtered_items[i + 1]} ELSE {})
  /\ \A c, d \in DOMAIN calls :
       c < d =>
         \/ calls[c].pos < calls[d].pos
         \/ /\ calls[c].pos = calls[d].pos
            /\ d = c + 1
            /\ calls[c].api \in DetailApis
            /\ calls[d].api = "get_mdblist_data"
  /\ \A pos \in HandledPos : Cardinality(RatingCallsAt(pos)) = 1
  /\ p_pc = "raised" => RatingCallsAt(filtered_items[i + 1]) = {}

\* two items handled; both calls of the first failed, and the trace is the
\* first item's detail and rating call, then the second item's, four in all
C11_Witness ==
  /\ p_pc = "returned"
  /\ Len(processed_items) = 2
  /\ origin[1].details = DetailFailed /\ origin[1].mdb_data = None
  /\ Len(calls) = 4
  /\ calls[1].api \in DetailApis /\ calls[1].pos = origin[1].pos
  /\ calls[2].api = "get_mdblist_data" /\ calls[2].pos = origin[1].pos
  /\ calls[3].api \in DetailApis /\ calls[3].pos = origin[2].pos
  /\ calls[4].api = "get_mdblist_data" /\ calls[4].pos = origin[2].pos

\* the trace indices of the Detail Source calls made for the item at  pos
DetailCallsAt(pos) ==
  {c \in DOMAIN calls : calls[c].pos = pos /\ calls[c].api \in DetailApis}

\* the keys compress_item_data takes from the listing item
ListingKeys ==
  {"id", "media_type", "title", "original_title", "poster_path", "backdrop_path",
   "overview", "vote_average", "vote_count", "popularity", "release_date",
   "genre_ids", "adult", "original_language"}

\* C13: for an item the loop handled with fetch_details true, a Detail Source
\* call is made if and only if the item's id is truthy and its resolved media
\* type (the media_type parameter, else the item's media_type, else movie) is
\* movie or tv, and the call is get_movie_details or get_tv_details accordingly;
\* otherwise no Detail Source call is made, the item is emitted with listing
\* and rating keys only, and the Rating Source is still called with the item's
\* id, as show for tv and as movie for every other type.
C13_DetailCallIffIdAndMovieOrTv ==
  \A pos \in HandledPos :
    LET item == items[pos]
        resolved == IF Truthy(media_type) THEN media_type
                    ELSE IF "media_type" \in DOMAIN item THEN item["media_type"]
                    ELSE movie
        eligible == Truthy(Get(item, "id")) /\ resolved \in {movie, tv}
    IN fetch_details =>
         /\ DetailCallsAt(pos) # {} <=> eligible
         /\ \A c \in DetailCallsAt(pos) :
              calls[c].api = IF resolved = tv THEN "get_tv_details"
                             ELSE "get_movie_details"
         /\ \E c \in RatingCallsAt(pos) :
              /\ calls[c].kind = IF resolved = tv THEN show ELSE movie
              /\ calls[c].arg = Get(item, "id")
         /\ ~eligible =>
              \E k \in DOMAIN origin :
                /\ origin[k].pos = pos
                /\ origin[k].details = None
                /\ DOMAIN processed_items[k] \subseteq ListingKeys \cup RatingKeys
                /\ Get(processed_items[k], "id") = Get(item, "id")
                /\ processed_items[k]["overview"] = item["overview"]

\* a trending page, no media_type parameter: the person entry with id 7 gets no
\* detail call, one rating call as movie, and is emitted; the show after it
\* gets get_tv_details and a rating call as show
C13_Witness ==
  /\ p_pc = "returned" /\ fetch_details /\ media_type = None
  /\ Len(items) = 2 /\ items[1] = ItemPerson /\ items[2] = ItemTv
  /\ Len(processed_items) = 2
  /\ processed_items[1]["id"] = Int_(7)
  /\ Len(calls) = 3
  /\ calls[1].api = "get_mdblist_data" /\ calls[1].pos = 1 /\ calls[1].kind = movie
  /\ calls[2].api = "get_tv_details" /\ calls[2].pos = 2
  /\ calls[3].api = "get_mdblist_data" /\ calls[3].kind = show

(***************************************************************************)
(* Properties of compress_videos_data (SpecVideos).                        *)
(***************************************************************************)
\* 1, 2, 3 for Trailer, Teaser, Clip; 4 for any other type or none
TypeRank(ty) ==
  IF ty = Trailer THEN 1 ELSE IF ty = Teaser THEN 2 ELSE IF ty = Clip THEN 3 ELSE 4

\* the input video at index a is taken before the one at index b
TakenBefore(vs, a, b) ==
  LET ra == TypeRank(Get(vs[a].d, "type"))
      rb == TypeRank(Get(vs[b].d, "type"))
  IN ra < rb \/ (ra = rb /\ a < b)

\* the place of the input video at index j in the order of taking
PlaceOf(vs, j) == Cardinality({a \in DOMAIN vs : TakenBefore(vs, a, j)}) + 1

\* C12: compress_videos_data returns at most  limit  entries: the first  limit
\* of the input's Trailers, then Teasers, then Clips, then all other videos,
\* each group in input order; so the result has min(limit, number of videos)
\* entries, and an entry of another type is in it only when the input has fewer
\* than  limit  videos of the three priority types.
C12_PriorityThenFill ==
  u_pc = "done" /\ "videos" \in DOMAIN u_in =>
    LET vs == u_in.videos.l
        cap == u_in.limit
        priority == {j \in DOMAIN vs : TypeRank(Get(vs[j].d, "type")) < 4}
    IN /\ Len(u_out) <= cap
       /\ Len(u_out) = Min(cap, Len(vs))
       /\ \A j \in DOMAIN vs :
            PlaceOf(vs, j) <= cap =>
              u_out[PlaceOf(vs, j)] = compress_video(vs[j])
       /\ (\E k \in DOMAIN u_out : TypeRank(Get(u_out[k].d, "type")) = 4) =>
            Cardinality(priority) < cap

\* cap 3 on featurette, clip, trailer, teaser: the trailer, teaser and clip come
\* out in that order and the featurette, first in the input, is left out
C12_Witness ==
  /\ u_pc = "done" /\ "videos" \in DOMAIN u_in
  /\ u_in.limit = 3
  /\ u_in.videos = List_(<<VideoOf("c", Featurette), VideoOf("a", Clip),
                           VideoOf("b", Trailer), VideoOf("d", Teaser)>>)
  /\ Len(u_out) = 3
  /\ u_out[1].d["id"] = Str_(<<"b">>)
  /\ u_out[2].d["id"] = Str_(<<"d">>)
  /\ u_out[3].d["id"] = Str_(<<"a">>)

(***************************************************************************)
(* Properties of generate_homepage_data (SpecHome).                        *)
(***************************************************************************)
\* the keys of the sources already run
KeysDone == {data_sources[n].key : n \in {m \in DOMAIN data_sources : m < h_idx}}

\* C3: generate_homepage_data returns a mapping with every configured source
\* key; a source that failed (an exception while fetching or processing, or an
\* empty response) has the empty list under its key, and the sources after it
\* are run all the same: after each source the mapping holds exactly the keys of
\* the sources run so far.
C3_EveryKeyPresent ==
  /\ h_pc = "done" => DOMAIN homepage_data = SourceKeys
  /\ h_pc = "loop" => DOMAIN homepage_data = KeysDone
  /\ h_pc \in {"loop", "done"} /\ last_outcome \in {"exception", "empty"} =>
       homepage_data[data_sources[h_idx - 1].key] = <<>>

\* the first source failed (these pages give an empty list only on a failure),
\* later sources delivered items, and the run returned
C3_Witness ==
  /\ h_pc = "done"
  /\ homepage_data["trending"] = <<>>
  /\ homepage_data["popularTv"] # <<>>
  /\ homepage_data["upcoming"] # <<>>
  /\ homepage_data["nowPlaying"] = <<>>

(***************************************************************************)
(* Properties of the rating consolidation (SpecRatings).                   *)
(***************************************************************************)
\* the rating entries given to the call, and the mapping it put in the item
RatingsIn == u_in.mdb_data.d["ratings"].l
RatingsOut ==
  IF "external_ratings" \in DOMAIN u_out.value
  THEN u_out.value["external_ratings"].d ELSE EmptyDict

InvalidValues == {None, EmptyStr, Int_(0), Float_(0)}

\* entry n is for source s and has a value that counts as a rating
ValidFor(n, s) ==
  /\ Get(RatingsIn[n].d, "source") = s
  /\ Get(RatingsIn[n].d, "value") \notin InvalidValues

\* entry n is for source s and has a null, empty or zero value
InvalidFor(n, s) ==
  /\ Get(RatingsIn[n].d, "source") = s
  /\ Get(RatingsIn[n].d, "value") \in InvalidValues

\* C4: the consolidated ratings of an item name no source outside the
\* allow-list, and each value is the rounded value of an entry of that source
\* whose value is not null, empty or zero.
C4_OnlyAllowedValidRatings ==
  u_pc = "done" =>
    \A s \in DOMAIN RatingsOut :
      /\ s \in main_sources
      /\ \E n \in DOMAIN RatingsIn :
           /\ ValidFor(n, s)
           /\ RatingsOut[s] = Round1(ToFloat(RatingsIn[n].d["value"]))

C4_Witness ==
  /\ u_pc = "done"
  /\ RatingsIn = <<Rating(unknown, Float_(900)), Rating(imdb, Int_(0)),
                   Rating(imdb, Float_(764))>>
  /\ RatingsOut = (imdb :> Float_(760))

\* C5 as stated: a source with a valid entry and a later null, empty or zero
\* entry is absent from the consolidated ratings.
C5_Original_LaterInvalidErases ==
  u_pc = "done" =>
    \A s \in main_sources :
      (\E a, b \in DOMAIN RatingsIn : a < b /\ ValidFor(a, s) /\ InvalidFor(b, s))
        => s \notin DOMAIN RatingsOut

\* C5 amended: the later null, empty or zero entry is dropped by the validity
\* filter and changes nothing: an allow-listed source with a valid entry is in
\* the consolidated ratings with the rounded value of its last valid entry
\* ([imdb 7.5, unknown 9.0, imdb 0] gives {imdb: 7.5}).
C5_LastValidEntryWins ==
  u_pc = "done" =>
    \A s \in main_sources :
      \A a \in DOMAIN RatingsIn :
        ValidFor(a, s) /\ (\A b \in DOMAIN RatingsIn : b > a => ~ValidFor(b, s))
          => /\ s \in DOMAIN RatingsOut
             /\ RatingsOut[s] = Round1(ToFloat(RatingsIn[a].d["value"]))

C5_Witness ==
  /\ u_pc = "done"
  /\ RatingsIn = <<Rating(imdb, Float_(750)), Rating(unknown, Float_(900)),
                   Rating(imdb, Int_(0))>>
  /\ RatingsOut = (imdb :> Float_(750))

(***************************************************************************)
(* Properties of compress_item_data (SpecItem).                            *)
(***************************************************************************)
\* C6: the item compress_item_data returns has no top-level key whose value is
\* null, the empty string or the empty list.
C6_NoEmptyValues ==
  u_pc = "done" /\ ~u_out.raised =>
    \A k \in DOMAIN u_out.value :
      /\ u_out.value[k] # None
      /\ u_out.value[k] # EmptyStr
      /\ u_out.value[k] # EmptyList

\* a show with genre_ids [] and no backdrop, a detail record with tagline "",
\* revenue null and spoken_languages [], a rating response with certification ""
C6_Witness ==
  /\ u_pc = "done"
  /\ u_in.item = ItemTv /\ u_in.details = DetailFull /\ u_in.mdb_data = MdbBare
  /\ DOMAIN u_out.value \cap {"genre_ids", "backdrop_path", "tagline", "revenue",
                              "spoken_languages", "certification", "trailer"} = {}
  /\ {"runtime", "cast", "id"} \subseteq DOMAIN u_out.value

(***************************************************************************)
(* Properties of the images of an item (SpecImages).                       *)
(***************************************************************************)
\* the entries of bucket b in the images of the normalized item (none when the
\* item has no images key or no such bucket)
ItemImages(b) ==
  IF "images" \in DOMAIN u_out.item /\ b \in DOMAIN u_out.item["images"].d
  THEN u_out.item["images"].d[b].l ELSE <<>>

CountLang(s, lang) == Cardinality({n \in DOMAIN s : Get(s[n].d, "iso_639_1") = lang})

\* C10: whatever image candidates the detail record carries, the item holds at
\* most bucketLimit images per bucket (the code emits none), and the selector of
\* section 4.1 returns at most bucketLimit entries per bucket, all of them zh, en
\* or untagged, having taken at most perLanguageLimit from each language group
\* before its final sort.
C10_ImageBounds ==
  u_pc = "done" =>
    \A b \in Buckets :
      /\ Len(ItemImages(b)) <= bucketLimit
      /\ b \in DOMAIN u_out.selected =>
           /\ Len(u_out.selected[b]) <= bucketLimit
           /\ u_out.selected[b] # <<>>
           /\ \A n \in DOMAIN u_out.selected[b] :
                Get(u_out.selected[b][n].d, "iso_639_1") \in {zh, en, None}
      /\ \A g \in DOMAIN LanguageGroups :
           CountLang(taken(u_in.details.d["images"].d[b].l, perLanguageLimit),
                     LanguageGroups[g]) <= perLanguageLimit

\* four backdrop candidates, three of them zh: the selector keeps three, the
\* five-zh poster bucket gives two zh and one en, the empty logo bucket is left
\* out, and the item has no images
C10_Witness ==
  /\ u_pc = "done"
  /\ u_in.details.d["images"].d["backdrops"].l =
       <<Image(zh, 2, 1), Image(zh, 1, 2), Image(zh, 2, 1), Image(None, 1, 1)>>
  /\ Len(u_out.selected["backdrops"]) = 3
  /\ CountLang(u_out.selected["posters"], zh) = 2
  /\ CountLang(u_out.selected["posters"], en) = 1
  /\ "logos" \notin DOMAIN u_out.selected
  /\ "images" \notin DOMAIN u_out.item
  /\ "runtime" \in DOMAIN u_out.item

====
